---------------------------- MODULE Spec2Model ----------------------------
(***************************************************************************)
(* gqlfetch: reconstruction of an SDL document from the result of a        *)
(* GraphQL introspection query (src/main.go).                              *)
(*                                                                         *)
(* Text is modelled as a sequence of tokens: every literal piece of a      *)
(* format string and every substituted value is one token, concatenation   *)
(* of strings is concatenation of sequences.  A Go pointer is a sequence   *)
(* of length at most one: <<>> is nil, <<v>> points to v.  A Go error      *)
(* value is a record holding its message, the operand printed by %v and    *)
(* the error wrapped by %w.  A nil-pointer dereference is a panic, which   *)
(* ends the whole program.                                                 *)
(***************************************************************************)
EXTENDS Naturals, Sequences, FiniteSets

VARIABLES
    pc,              \* position of the call in progress
    withoutBuiltins, \* options.WithoutBuiltins of the call
    schemaResponse,  \* the decoded introspectionResults
    sb,              \* the strings.Builder of printSchema
    lost,            \* errors returned by a callee and dropped by its caller
    ret,             \* what BuildClientSchemaWithOptions returned
    typ,             \* argument of a direct call of the Resolver
    resolved,        \* its result
    rendered         \* ast.Type.String() of that result

vars == <<pc, withoutBuiltins, schemaResponse, sb, lost, ret, typ, resolved, rendered>>

(***************************************************************************)
(* Bounds of the model.                                                    *)
(***************************************************************************)
MaxDepth == 3
MaxErrors == 2
MaxDirectives == 2
MaxTypes == 2
MaxPartial == 1

(***************************************************************************)
(* introspectionTypeKind and its constants.                                *)
(***************************************************************************)
NON_NULL == "NON_NULL"
LIST == "LIST"
OBJECT == "OBJECT"

Nil == <<>>
Ptr(v) == <<v>>
Deref(p) == p[1]

(***************************************************************************)
(* Error values.                                                           *)
(***************************************************************************)
NewError(msg) == [msg |-> msg, ref |-> Nil, unwrap |-> Nil]

\* fmt.Errorf("convert introspection type to AST type: %w\n%v", err, ref)
WrapConvert(err, ref) ==
    [msg |-> <<"convert introspection type to AST type: ">> \o err.msg \o <<"\n", "%v">>,
     ref |-> ref,
     unwrap |-> Ptr(err)]

\* fmt.Errorf("type kind unknown: %s", kind)
KindUnknown(kind) == NewError(<<"type kind unknown: ", kind>>)

\* errors.Unwrap, repeated to the innermost error
RECURSIVE Cause(_)
Cause(err) ==
    IF err.unwrap = Nil THEN err ELSE Cause(Deref(err.unwrap))

(***************************************************************************)
(* Results of a call that returns (value, error) or panics.                *)
(***************************************************************************)
Value(v) == [val |-> Ptr(v), err |-> Nil, panic |-> FALSE]
Failure(e) == [val |-> Nil, err |-> Ptr(e), panic |-> FALSE]
Panic == [val |-> Nil, err |-> Nil, panic |-> TRUE]

(***************************************************************************)
(* ast.Type values built by the Resolver.                                  *)
(***************************************************************************)
ZeroType == [NamedType |-> "", NonNull |-> FALSE, Elem |-> Nil]

\* res.NamedType = *typ.Name
NamedLeaf(name) == [ZeroType EXCEPT !.NamedType = name]

NonNullNoMark(astType) == astType
\* res = *astType; res.NonNull = true
NonNullOf(astType) == [astType EXCEPT !.NonNull = TRUE]

\* res.Elem = astType
ListOf(astType) == [ZeroType EXCEPT !.Elem = Ptr(astType)]

IsLeafByKind(t) == t.Kind \notin {NON_NULL, LIST}
\* if typ.OfType == nil
IsLeaf(t) == t.OfType = Nil

(***************************************************************************)
(* introspectionTypeToAstType: typ is a *introspectedType.                 *)
(***************************************************************************)
\* astType, err := introspectionTypeToAstType(typ.OfType); if err != nil {
\* return nil, fmt.Errorf("...: %w\n%v", err, typ.OfType) }; return build(astType), nil
OnInner(r, inner, build(_)) ==
    IF r.panic THEN Panic
    ELSE IF r.err # Nil THEN Failure(WrapConvert(Deref(r.err), inner))
    ELSE Value(build(Deref(r.val)))

RECURSIVE introspectionTypeToAstType(_)
introspectionTypeToAstType(p) ==
    IF p = Nil THEN Panic                             \* typ.OfType of a nil typ
    ELSE IF IsLeaf(Deref(p))
    THEN IF Deref(p).Name = Nil THEN Panic            \* *typ.Name of a nil Name
         ELSE Value(NamedLeaf(Deref(Deref(p).Name)))
    ELSE IF Deref(p).Kind = NON_NULL
    THEN OnInner(introspectionTypeToAstType(Deref(p).OfType), Deref(p).OfType, NonNullOf)
    ELSE IF Deref(p).Kind = LIST
    THEN OnInner(introspectionTypeToAstType(Deref(p).OfType), Deref(p).OfType, ListOf)
    ELSE Failure(KindUnknown(Deref(p).Kind))

(***************************************************************************)
(* ast.Type.String() of github.com/vektah/gqlparser/ast, called on every   *)
(* resolved type: NamedType + nn when the type is named, otherwise         *)
(* "[" + Elem.String() + "]" + nn, which dereferences Elem.                *)
(***************************************************************************)
RECURSIVE StringPanics(_)
StringPanics(t) ==
    IF t.NamedType # "" THEN FALSE
    ELSE IF t.Elem = Nil THEN TRUE
    ELSE StringPanics(Deref(t.Elem))

RECURSIVE String(_)
String(t) ==
    LET nn == IF t.NonNull THEN <<"!">> ELSE <<>> IN
    IF t.NamedType # "" THEN <<t.NamedType>> \o nn
    ELSE <<"[">> \o String(Deref(t.Elem)) \o <<"]">> \o nn

(***************************************************************************)
(* Strings the code inspects character by character: the characters of    *)
(* the names that occur in the model.  Every other name is one symbol      *)
(* that is not an underscore.                                              *)
(***************************************************************************)
Chars(s) ==
    CASE s = "__" -> <<"_", "_">>
      [] s = "__Type" -> <<"_", "_", "T", "y", "p", "e">>
      [] s = "__Schema" -> <<"_", "_", "S", "c", "h", "e", "m", "a">>
      [] s = "_Foo" -> <<"_", "F", "o", "o">>
      [] s = "" -> <<>>
      [] OTHER -> <<s>>

HasPrefixWhole(s, prefix) == Chars(s) = Chars(prefix)
\* strings.HasPrefix
HasPrefix(s, prefix) ==
    /\ Len(Chars(s)) >= Len(Chars(prefix))
    /\ SubSeq(Chars(s), 1, Len(Chars(prefix))) = Chars(prefix)

excludeScalarTypes == <<"ID", "Int", "String", "Float", "Boolean">>
excludeDirectives == <<"deprecated", "include", "skip">>

containsStr(needle, hay) == \E i \in 1..Len(hay) : needle = hay[i]

(***************************************************************************)
(* ast.DefinitionKind.                                                     *)
(***************************************************************************)
Scalar == "SCALAR"
Object == "OBJECT"
Interface == "INTERFACE"
Union == "UNION"
Enum == "ENUM"
InputObject == "INPUT_OBJECT"

(***************************************************************************)
(* The Printer.  A printing function returns the builder's text, the       *)
(* error it returned (nil when none), whether it panicked, and the errors  *)
(* it received from a callee and did not return.                           *)
(***************************************************************************)
Printed(text) == [sb |-> text, err |-> Nil, panic |-> FALSE, dropped |-> <<>>]
Returned(text, e) == [sb |-> text, err |-> Ptr(e), panic |-> FALSE, dropped |-> <<>>]
Crashed(text) == [sb |-> text, err |-> Nil, panic |-> TRUE, dropped |-> <<>>]
Stopped(out) == out.err # Nil \/ out.panic

\* if err != nil { return err }, then the statements that follow
AndThen(out, rest(_)) == IF Stopped(out) THEN out ELSE rest(out.sb)

printDescription(text, description) ==
    IF description # ""
    THEN text \o <<"\"\"\"", description, "\"\"\"">> \o <<"\n">>
    ELSE text

\* if err != nil { return fmt.Errorf("...: %w\n%v", err, p) };
\* sb.WriteString(pre + astType.String() + post)
writeResolved(text, p, r, pre, post) ==
    IF r.panic THEN Crashed(text)
    ELSE IF r.err # Nil THEN Returned(text, WrapConvert(Deref(r.err), p))
    ELSE IF StringPanics(Deref(r.val)) THEN Crashed(text)
    ELSE Printed(text \o pre \o String(Deref(r.val)) \o post)

\* astType, err := introspectionTypeToAstType(p), and the above
writeType(text, p, pre, post) ==
    writeResolved(text, p, introspectionTypeToAstType(p), pre, post)

\* for _, arg := range args: the argument lines of a directive (indent "\t",
\* described), of an object field (indent "\t\t", described) and of an
\* interface field (indent "\t\t", descriptions not printed)
RECURSIVE printArgs(_, _, _, _, _)
printArgs(text, args, i, indent, described) ==
    IF i > Len(args) THEN Printed(text)
    ELSE AndThen(writeType(IF described THEN printDescription(text, args[i].Description)
                           ELSE text,
                           args[i].Type, <<indent, args[i].Name, ": ">>, <<"\n">>),
                 LAMBDA t : printArgs(t, args, i + 1, indent, described))

\* for i, item := range items: the item, and the separator unless it is the last
RECURSIVE joinFrom(_, _, _)
joinFrom(items, i, sep) ==
    IF i > Len(items) THEN <<>>
    ELSE <<items[i]>> \o (IF i < Len(items) THEN <<sep>> ELSE <<>>) \o joinFrom(items, i + 1, sep)

\* if withoutBuiltins && containsStr(directive.Name, excludeDirectives)
IsExcludedDirective(directive, wb) ==
    wb /\ containsStr(directive.Name, excludeDirectives)

\* one iteration of the loop of printDirectives
printDirectivesBody(text, directive, wb) ==
    IF IsExcludedDirective(directive, wb) THEN Printed(text)
    ELSE AndThen(
           IF Len(directive.Args) > 0
           THEN AndThen(printArgs(printDescription(text, directive.Description)
                                     \o <<"directive @", directive.Name>> \o <<"(\n">>,
                                  directive.Args, 1, "\t", TRUE),
                        LAMBDA t : Printed(t \o <<")">>))
           ELSE Printed(printDescription(text, directive.Description)
                           \o <<"directive @", directive.Name>>),
           LAMBDA t : Printed(t \o <<" on ">> \o joinFrom(directive.Locations, 1, " | ")
                                \o <<"\n">> \o <<"\n">>))

RECURSIVE printDirectivesFrom(_, _, _, _)
printDirectivesFrom(text, directives, i, wb) ==
    IF i > Len(directives) THEN Printed(text)
    ELSE AndThen(printDirectivesBody(text, directives[i], wb),
                 LAMBDA t : printDirectivesFrom(t, directives, i + 1, wb))

printDirectives(text, directives, wb) == printDirectivesFrom(text, directives, 1, wb)

(***************************************************************************)
(* json.Unmarshal of a json.RawMessage: the raw document either decodes    *)
(* to a value of the wanted shape or does not.                             *)
(***************************************************************************)
Raw(v) == [ok |-> TRUE, val |-> v]
Malformed == [ok |-> FALSE, val |-> <<>>]

\* one field of an object (description: its own, arguments described) or of
\* an interface (description: the one printInterface passes, arguments not
\* described): name, argument block, ": " type
printField(text, description, field, described) ==
    AndThen(
      IF Len(field.Args) > 0
      THEN AndThen(printArgs(printDescription(text, description) \o <<"\t", field.Name>>
                                \o <<"(\n">>,
                             field.Args, 1, "\t\t", described),
                   LAMBDA t : Printed(t \o <<"\t)">>))
      ELSE Printed(printDescription(text, description) \o <<"\t", field.Name>>),
      LAMBDA t : writeType(t, field.Type, <<": ">>, <<"\n">>))

\* case ast.Object: for _, field := range typ.Fields
RECURSIVE printObjectFields(_, _, _)
printObjectFields(text, typeDef, i) ==
    IF i > Len(typeDef.Fields) THEN Printed(text)
    ELSE AndThen(printField(text, typeDef.Fields[i].Description, typeDef.Fields[i], TRUE),
                 LAMBDA t : printObjectFields(t, typeDef, i + 1))

\* printInterface: for _, field := range typ.Fields
RECURSIVE printInterfaceFields(_, _, _)
printInterfaceFields(text, typeDef, i) ==
    IF i > Len(typeDef.Fields) THEN Printed(text)
    ELSE AndThen(printField(text, typeDef.Description, typeDef.Fields[i], FALSE),
                 LAMBDA t : printInterfaceFields(t, typeDef, i + 1))

printInterface(text, typeDef) ==
    IF typeDef.Kind # Interface
    THEN Returned(text, NewError(<<"cannot print ", typeDef.Kind, " as ", Interface>>))
    ELSE AndThen(printInterfaceFields(text \o <<"interface ", typeDef.Name, " {\n">>, typeDef, 1),
                 LAMBDA t : Printed(t \o <<"}">>))

\* case ast.InputObject: for _, field := range typ.InputFields
RECURSIVE printInputFields(_, _, _)
printInputFields(text, typeDef, i) ==
    IF i > Len(typeDef.InputFields) THEN Printed(text)
    ELSE AndThen(writeType(printDescription(text, typeDef.Description),
                           typeDef.InputFields[i].Type,
                           <<"\t", typeDef.InputFields[i].Name, ": ">>, <<"\n">>),
                 LAMBDA t : printInputFields(t, typeDef, i + 1))

\* case ast.Union: for i, typ := range possible
RECURSIVE printPossible(_, _, _)
printPossible(text, possible, i) ==
    IF i > Len(possible) THEN Printed(text)
    ELSE AndThen(writeType(text, possible[i], <<>>,
                           IF i < Len(possible) THEN <<" | ">> ELSE <<>>),
                 LAMBDA t : printPossible(t, possible, i + 1))

\* case ast.Enum: for _, value := range enumValues
RECURSIVE printEnumValues(_, _, _)
printEnumValues(text, values, i) ==
    IF i > Len(values) THEN text
    ELSE printEnumValues(printDescription(text, values[i].Description)
                            \o <<"\t", values[i].Name, "\n">>,
                         values, i + 1)

\* printInterface(sb, typ) as printTypes calls it: the error it returns is
\* not looked at
IgnoreError(out) == [sb |-> out.sb, err |-> Nil, panic |-> out.panic, dropped |-> out.err]

\* the switch of printTypes on typ.Kind
printKind(text, typeDef) ==
    CASE typeDef.Kind = Object ->
           AndThen(printObjectFields(
                     text \o <<"type ", typeDef.Name, " ">>
                          \o (IF Len(typeDef.Interfaces) > 0
                              THEN <<"implements ">>
                                   \o joinFrom([k \in 1..Len(typeDef.Interfaces) |->
                                                  typeDef.Interfaces[k].Name], 1, " & ")
                              ELSE <<>>)
                          \o <<"{\n">>,
                     typeDef, 1),
                   LAMBDA t : Printed(t \o <<"}">>))
      [] typeDef.Kind = Union ->
           IF ~typeDef.PossibleTypes.ok
           THEN Returned(text \o <<"union ", typeDef.Name, " =">>,
                         NewError(<<"json: cannot unmarshal">>))
           ELSE printPossible(text \o <<"union ", typeDef.Name, " =">>,
                              typeDef.PossibleTypes.val, 1)
      [] typeDef.Kind = Enum ->
           IF ~typeDef.EnumValues.ok
           THEN Returned(text \o <<"enum ", typeDef.Name, " {\n">>,
                         NewError(<<"cannot unmarshal enum values: ",
                                    "json: cannot unmarshal", "\n", "%v">>))
           ELSE Printed(printEnumValues(text \o <<"enum ", typeDef.Name, " {\n">>,
                                        typeDef.EnumValues.val, 1) \o <<"}">>)
      [] typeDef.Kind = Scalar ->
           Printed(text \o <<"scalar ", typeDef.Name>>)
      [] typeDef.Kind = InputObject ->
           AndThen(printInputFields(text \o <<"input ", typeDef.Name, " {\n">>, typeDef, 1),
                   LAMBDA t : Printed(t \o <<"}">>))
      [] typeDef.Kind = Interface ->
           IgnoreError(printInterface(text, typeDef))
      [] OTHER ->
           Returned(text, NewError(<<"not handling kind: ", typeDef.Kind>>))

IsExcludedScalarByName(typeDef, wb) ==
    wb /\ containsStr(typeDef.Name, excludeScalarTypes)
\* if withoutBuiltins && containsStr(typ.Name, excludeScalarTypes) && typ.Kind == ast.Scalar
IsExcludedScalar(typeDef, wb) ==
    wb /\ containsStr(typeDef.Name, excludeScalarTypes) /\ typeDef.Kind = Scalar

\* if strings.HasPrefix(typ.Name, "__")
IsMetaType(typeDef) == HasPrefix(typeDef.Name, "__")

\* sb.WriteString("\n"); sb.WriteString("\n") at the end of an iteration
EndBlock(out) ==
    IF Stopped(out) THEN out ELSE [out EXCEPT !.sb = out.sb \o <<"\n">> \o <<"\n">>]

\* one iteration of the loop of printTypes
printTypesBody(text, typeDef, wb) ==
    IF IsMetaType(typeDef) THEN Printed(text)
    ELSE IF IsExcludedScalar(typeDef, wb) THEN Printed(text)
    ELSE EndBlock(printKind(printDescription(text, typeDef.Description), typeDef))

\* the errors an iteration dropped stay dropped in the iterations after it
KeepDropped(out, rest(_)) ==
    IF Stopped(out) THEN out
    ELSE [rest(out.sb) EXCEPT !.dropped = out.dropped \o @]

RECURSIVE printTypesFrom(_, _, _, _)
printTypesFrom(text, types, i, wb) ==
    IF i > Len(types) THEN Printed(text)
    ELSE KeepDropped(printTypesBody(text, types[i], wb),
                     LAMBDA t : printTypesFrom(t, types, i + 1, wb))

printTypes(text, types, wb) == printTypesFrom(text, types, 1, wb)

\* printSchema: both printing functions write to one builder, the errors
\* they return are not looked at, the builder's text is returned
printSchema(schema, wb) ==
    printTypes(printDirectives(<<>>, schema.Directives, wb).sb, schema.Types, wb).sb

(***************************************************************************)
(* strings.Join(errs, ",") after the fixed prefix of the GraphQL error.    *)
(***************************************************************************)
JoinFirstOnly(errs, sep) == <<errs[1]>>
Join(errs, sep) == joinFrom(errs, 1, sep)

graphQLError(errors) ==
    NewError(<<"encountered the following GraphQL errors: ">>
             \o Join([k \in 1..Len(errors) |-> errors[k].Message], ","))

(***************************************************************************)
(* Inputs: type references.                                                *)
(***************************************************************************)
Leaf(kind, name) == [Kind |-> kind, Name |-> Ptr(name), OfType |-> Nil]
NamelessLeaf(kind) == [Kind |-> kind, Name |-> Nil, OfType |-> Nil]
Wrapper(kind, inner) == [Kind |-> kind, Name |-> Nil, OfType |-> Ptr(inner)]

LeafKinds == {"SCALAR", LIST, "BOGUS"}
LeafNames == {Nil, Ptr(""), Ptr("Foo"), Ptr("String")}
WrapperKinds == {NON_NULL, LIST, OBJECT, "BOGUS"}

Leaves == {[Kind |-> k, Name |-> n, OfType |-> Nil] : k \in LeafKinds, n \in LeafNames}

\* the chains of at most d nodes above a leaf
RECURSIVE TypeRefs(_)
TypeRefs(d) ==
    IF d = 0 THEN Leaves
    ELSE LET inner == TypeRefs(d - 1) IN
         inner \cup {Wrapper(k, r) : k \in WrapperKinds, r \in inner}

(***************************************************************************)
(* Inputs: schemas.                                                        *)
(***************************************************************************)
RefString == Ptr(Leaf("SCALAR", "String"))
RefNonNullBoolean == Ptr(Wrapper(NON_NULL, Leaf("SCALAR", "Boolean")))
RefNonNullList == Ptr(Wrapper(NON_NULL, Wrapper(LIST, Wrapper(NON_NULL, Leaf("SCALAR", "String")))))
RefBogus == Ptr(Wrapper("BOGUS", Leaf("SCALAR", "String")))
RefNameless == Ptr(NamelessLeaf("SCALAR"))

InputField(name, description, ref) ==
    [Name |-> name, Description |-> description, Type |-> ref]
Field(name, description, args, ref) ==
    [Name |-> name, Description |-> description, Args |-> args, Type |-> ref]
TypeDef(kind, name, description) ==
    [Kind |-> kind, Name |-> name, Description |-> description,
     Fields |-> <<>>, InputFields |-> <<>>, Interfaces |-> <<>>,
     EnumValues |-> Raw(<<>>), PossibleTypes |-> Raw(<<>>)]
DirectiveDef(name, description, locations, args) ==
    [Name |-> name, Description |-> description, Locations |-> locations, Args |-> args]

GoodFields ==
    << Field("hello", "F", <<InputField("a", "A", RefString)>>, RefNonNullList),
       Field("id", "", <<>>, RefString) >>
BadFields == << Field("hello", "F", <<>>, RefBogus) >>

DirectiveSkip ==
    DirectiveDef("skip", "", <<"FIELD", "INLINE_FRAGMENT">>,
                 <<InputField("if", "A", RefNonNullBoolean)>>)
DirectiveCustom == DirectiveDef("customDirective", "D", <<"FIELD">>, <<>>)
DirectiveIncludeBroken ==
    DirectiveDef("include", "", <<"FIELD">>, <<InputField("if", "", RefBogus)>>)

DirectiveDefs == {DirectiveSkip, DirectiveCustom, DirectiveIncludeBroken}

ScalarString == TypeDef(Scalar, "String", "")
ScalarFoo == TypeDef(Scalar, "_Foo", "S")
ObjectInt ==
    [TypeDef(Object, "Int", "T") EXCEPT
        !.Fields = GoodFields, !.Interfaces = <<[Name |-> "Node"], [Name |-> "Entity"]>>]
InterfaceNode == [TypeDef(Interface, "Node", "T") EXCEPT !.Fields = GoodFields]
InputFilter ==
    [TypeDef(InputObject, "Filter", "T") EXCEPT
        !.InputFields = <<InputField("name", "F", RefString), InputField("age", "", RefString)>>]
UnionSearchResult ==
    [TypeDef(Union, "SearchResult", "") EXCEPT
        !.PossibleTypes = Raw(<<Ptr(Leaf(OBJECT, "Int")), Ptr(Leaf(OBJECT, "Foo"))>>)]
EnumColor ==
    [TypeDef(Enum, "Color", "") EXCEPT
        !.EnumValues = Raw(<<[Name |-> "RED", Description |-> "primary red"],
                             [Name |-> "GREEN", Description |-> ""]>>)]
MetaType == [TypeDef(Object, "__Type", "M") EXCEPT !.Fields = GoodFields]
MetaUnknownKind == TypeDef("BOGUS_KIND", "__Schema", "M")
UnknownKind == TypeDef("BOGUS_KIND", "Foo", "T")
ObjectBroken == [TypeDef(Object, "Broken", "") EXCEPT !.Fields = BadFields]
InterfaceBroken == [TypeDef(Interface, "BrokenNode", "") EXCEPT !.Fields = BadFields]
UnionMalformed == [TypeDef(Union, "Garbled", "") EXCEPT !.PossibleTypes = Malformed]
InputNameless ==
    [TypeDef(InputObject, "Nameless", "") EXCEPT
        !.InputFields = <<InputField("x", "", RefNameless)>>]

TypeDefs ==
    { ScalarString, ScalarFoo, ObjectInt, InterfaceNode, InputFilter, UnionSearchResult,
      EnumColor, MetaType, MetaUnknownKind, UnknownKind, ObjectBroken, InterfaceBroken,
      UnionMalformed, InputNameless }

Messages == {"m1", "m2"}

SeqUpTo(S, n) == UNION {[1..k -> S] : k \in 0..n}

DirectiveLists == SeqUpTo(DirectiveDefs, MaxDirectives)
TypeLists == SeqUpTo(TypeDefs, MaxTypes)
ErrorLists == SeqUpTo({[Message |-> m] : m \in Messages}, MaxErrors)

\* the documents a server answers with: a schema, or errors beside a
\* (partial) schema
IsPayload(errors, directives, types) ==
    errors # <<>> => Len(directives) <= MaxPartial /\ Len(types) <= MaxPartial

Response(errors, directives, types) ==
    [Errors |-> errors, Data |-> [Schema |-> [Directives |-> directives, Types |-> types]]]

ZeroResponse == Response(<<>>, <<>>, <<>>)
NoReturn == [sdl |-> <<>>, err |-> Nil]
NotCalled == [val |-> Nil, err |-> Nil, panic |-> FALSE]

(***************************************************************************)
(* BuildClientSchemaWithOptions, from the request sent to the return.      *)
(***************************************************************************)
Init ==
    /\ pc = "start"
    /\ withoutBuiltins \in BOOLEAN
    /\ schemaResponse = ZeroResponse
    /\ sb = <<>>
    /\ lost = <<>>
    /\ ret = NoReturn
    /\ typ = Nil
    /\ resolved = NotCalled
    /\ rendered = <<>>

\* res, err := client.Do(req); if err != nil { return "", err }
FetchFails ==
    /\ pc = "start"
    /\ pc' = "done"
    /\ ret' = [sdl |-> <<>>, err |-> Ptr(NewError(<<"transport">>))]
    /\ UNCHANGED <<withoutBuiltins, schemaResponse, sb, lost, typ, resolved, rendered>>

\* err = json.NewDecoder(res.Body).Decode(&schemaResponse); if err != nil { return "", err }
DecodeFails ==
    /\ pc = "start"
    /\ pc' = "done"
    /\ ret' = [sdl |-> <<>>, err |-> Ptr(NewError(<<"json: cannot unmarshal">>))]
    /\ UNCHANGED <<withoutBuiltins, schemaResponse, sb, lost, typ, resolved, rendered>>

Decode ==
    /\ pc = "start"
    /\ \E errors \in ErrorLists, directives \in DirectiveLists, types \in TypeLists :
          /\ IsPayload(errors, directives, types)
          /\ schemaResponse' = Response(errors, directives, types)
    /\ pc' = "decoded"
    /\ UNCHANGED <<withoutBuiltins, sb, lost, ret, typ, resolved, rendered>>

\* if len(schemaResponse.Errors) != 0 { ... return "", errors.New(...) }
GraphQLErrors ==
    /\ pc = "decoded"
    /\ Len(schemaResponse.Errors) # 0
    /\ pc' = "done"
    /\ ret' = [sdl |-> <<>>, err |-> Ptr(graphQLError(schemaResponse.Errors))]
    /\ UNCHANGED <<withoutBuiltins, schemaResponse, sb, lost, typ, resolved, rendered>>

\* a call of printSchema to a printing function: the builder keeps what was
\* written, the error returned is dropped, a panic ends the program
Printing(out, after) ==
    /\ sb' = out.sb
    /\ lost' = lost \o out.dropped \o out.err
    /\ pc' = IF out.panic THEN "panic" ELSE after

\* printSchema: sb := &strings.Builder{}; printDirectives(sb, ...)
PrintDirectives ==
    /\ pc = "decoded"
    /\ Len(schemaResponse.Errors) = 0
    /\ Printing(printDirectives(<<>>, schemaResponse.Data.Schema.Directives, withoutBuiltins),
                "printTypes")
    /\ UNCHANGED <<withoutBuiltins, schemaResponse, ret, typ, resolved, rendered>>

\* printSchema: printTypes(sb, ...)
PrintTypes ==
    /\ pc = "printTypes"
    /\ Printing(printTypes(sb, schemaResponse.Data.Schema.Types, withoutBuiltins), "return")
    /\ UNCHANGED <<withoutBuiltins, schemaResponse, ret, typ, resolved, rendered>>

\* printSchema: return sb.String(); BuildClientSchemaWithOptions: return ..., nil
Return ==
    /\ pc = "return"
    /\ pc' = "done"
    /\ ret' = [sdl |-> sb, err |-> Nil]
    /\ UNCHANGED <<withoutBuiltins, schemaResponse, sb, lost, typ, resolved, rendered>>

Next ==
    \/ FetchFails
    \/ DecodeFails
    \/ Decode
    \/ GraphQLErrors
    \/ PrintDirectives
    \/ PrintTypes
    \/ Return

Spec == Init /\ [][Next]_vars

(***************************************************************************)
(* The Resolver called on its own, and its result rendered.                *)
(***************************************************************************)
InitResolve ==
    /\ pc = "resolve"
    /\ typ \in {Nil} \cup {Ptr(r) : r \in TypeRefs(MaxDepth)}
    /\ withoutBuiltins = FALSE
    /\ schemaResponse = ZeroResponse
    /\ sb = <<>>
    /\ lost = <<>>
    /\ ret = NoReturn
    /\ resolved = NotCalled
    /\ rendered = <<>>

Resolving(r) ==
    /\ resolved' = r
    /\ pc' = IF r.panic THEN "panic" ELSE IF r.err # Nil THEN "failed" ELSE "resolved"

Resolve ==
    /\ pc = "resolve"
    /\ Resolving(introspectionTypeToAstType(typ))
    /\ UNCHANGED <<withoutBuiltins, schemaResponse, sb, lost, ret, typ, rendered>>

\* astType.String()
Render ==
    /\ pc = "resolved"
    /\ IF StringPanics(Deref(resolved.val))
       THEN pc' = "panic" /\ rendered' = rendered
       ELSE pc' = "rendered" /\ rendered' = String(Deref(resolved.val))
    /\ UNCHANGED <<withoutBuiltins, schemaResponse, sb, lost, ret, typ, resolved>>

NextResolve ==
    \/ Resolve
    \/ Render

SpecResolve == InitResolve /\ [][NextResolve]_vars

(***************************************************************************)
(* Properties of the Resolver (checked under SpecResolve).                 *)
(***************************************************************************)
Called == pc # "resolve" /\ typ # Nil

\* the wrappers of the chain are NON_NULL or LIST, its leaf has a name
RECURSIVE IsWrapperChain(_)
IsWrapperChain(t) ==
    IF t.OfType = Nil THEN t.Name # Nil /\ t.Name # <<"">>
    ELSE t.Kind \in {"NON_NULL", "LIST"} /\ IsWrapperChain(t.OfType[1])

\* the nesting of the chain: one pair of brackets per LIST, one "!" per NON_NULL
RECURSIVE Nesting(_)
Nesting(t) ==
    IF t.OfType = Nil THEN <<t.Name[1]>>
    ELSE IF t.Kind = "LIST" THEN <<"[">> \o Nesting(t.OfType[1]) \o <<"]">>
    ELSE Nesting(t.OfType[1]) \o <<"!">>

\* the same, a NON_NULL wrapped directly around a NON_NULL wrapper adding nothing
RECURSIVE NestingOnce(_)
NestingOnce(t) ==
    IF t.OfType = Nil THEN <<t.Name[1]>>
    ELSE IF t.Kind = "LIST" THEN <<"[">> \o NestingOnce(t.OfType[1]) \o <<"]">>
    ELSE IF t.OfType[1].OfType # Nil /\ t.OfType[1].Kind = "NON_NULL"
    THEN NestingOnce(t.OfType[1])
    ELSE NestingOnce(t.OfType[1]) \o <<"!">>

\* C2 as stated: a chain of NON_NULL and LIST wrappers over a named leaf
\* resolves, and renders as its nesting, every NON_NULL wrapper adding one "!".
C2_EveryNonNullMarks ==
    Called /\ IsWrapperChain(typ[1]) =>
        /\ pc \in {"resolved", "rendered"}
        /\ pc = "rendered" => rendered = Nesting(typ[1])

\* C2 amended: a chain of NON_NULL and LIST wrappers over a named leaf
\* resolves, and renders as its nesting in the same order: the leaf as its
\* name, every LIST as one pair of brackets, every NON_NULL as one "!" unless
\* the node directly beneath it is itself a NON_NULL wrapper.
C2_NestingReproduced ==
    Called /\ IsWrapperChain(typ[1]) =>
        /\ pc \in {"resolved", "rendered"}
        /\ resolved.err = Nil /\ resolved.val # Nil
        /\ pc = "rendered" => rendered = NestingOnce(typ[1])

C2_Witness ==
    /\ pc = "rendered"
    /\ typ = RefNonNullList
    /\ rendered = <<"[", "String", "!", "]", "!">>

\* the leaf the chain ends in
RECURSIVE LeafOf(_)
LeafOf(t) == IF t.OfType = Nil THEN t ELSE LeafOf(t.OfType[1])

\* C7: a chain that ends in a leaf without a name makes resolution return an
\* error value; it neither panics nor returns an expression.
C7_NamelessLeafIsAnError ==
    Called /\ LeafOf(typ[1]).Name = Nil =>
        /\ pc # "panic"
        /\ ~resolved.panic
        /\ resolved.err # Nil
        /\ resolved.val = Nil

\* the nodes of the chain, from the root down
RECURSIVE Nodes(_)
Nodes(t) == IF t.OfType = Nil THEN <<t>> ELSE <<t>> \o Nodes(t.OfType[1])

IsOffending(node) == node.OfType # Nil /\ node.Kind \notin {"NON_NULL", "LIST"}

NamesKind(result, kind) ==
    /\ ~result.panic
    /\ result.val = Nil
    /\ result.err # Nil
    /\ Cause(result.err[1]).msg = <<"type kind unknown: ", kind>>

\* C8 as stated: for every non-leaf node of the chain whose kind is neither
\* NON_NULL nor LIST, resolution fails with "type kind unknown" naming the kind
\* of that node; a node without inner reference resolves to its name.
C8_EveryOffendingKindNamed ==
    Called =>
        /\ \A i \in 1..Len(Nodes(typ[1])) :
              IsOffending(Nodes(typ[1])[i]) => NamesKind(resolved, Nodes(typ[1])[i].Kind)
        /\ typ[1].OfType = Nil /\ typ[1].Name # Nil =>
              resolved = Value([NamedType |-> typ[1].Name[1], NonNull |-> FALSE, Elem |-> <<>>])

\* C8 amended: when the chain holds a non-leaf node whose kind is neither
\* NON_NULL nor LIST, resolution fails, returns no expression, and the error
\* it returns wraps "type kind unknown" naming the kind of the outermost such
\* node, once for every wrapper above that node; a node without inner
\* reference resolves to its name whatever its kind.
C8_OutermostOffendingKindNamed ==
    Called =>
        /\ \A i \in 1..Len(Nodes(typ[1])) :
              /\ IsOffending(Nodes(typ[1])[i])
              /\ \A j \in 1..(i - 1) : ~IsOffending(Nodes(typ[1])[j])
              => /\ NamesKind(resolved, Nodes(typ[1])[i].Kind)
                 /\ pc = "failed"
                 /\ Len(resolved.err[1].msg) = 2 + 3 * (i - 1)
        /\ typ[1].OfType = Nil /\ typ[1].Name # Nil =>
              resolved = Value([NamedType |-> typ[1].Name[1], NonNull |-> FALSE, Elem |-> <<>>])

C8_Witness ==
    /\ pc = "failed"
    /\ typ = Ptr(Wrapper(LIST, Wrapper("BOGUS", Leaf("SCALAR", "String"))))
    /\ Cause(resolved.err[1]).msg = <<"type kind unknown: ", "BOGUS">>
    /\ resolved.err[1].ref = Ptr(Wrapper("BOGUS", Leaf("SCALAR", "String")))

(***************************************************************************)
(* Properties of the conversion (checked under Spec).                      *)
(***************************************************************************)
Schema == schemaResponse.Data.Schema
PrinterRan == pc = "done" /\ Len(schemaResponse.Errors) = 0 /\ sb = ret.sdl /\ ret.err = Nil

IsResolverFailure(e) == e.msg[1] = "convert introspection type to AST type: "
IsUnhandledKind(e) == e.msg[1] = "not handling kind: "

\* C1: when the Resolver failed while the Printer rendered a type, the
\* conversion returns an error and no SDL text.
C1_ResolverFailureFailsConversion ==
    pc = "done" /\ (\E i \in 1..Len(lost) : IsResolverFailure(lost[i])) =>
        ret.err # Nil /\ ret.sdl = <<>>

\* C4: when the Printer reached a type of an unhandled kind, the conversion
\* returns an error and no SDL text.
C4_UnhandledKindFailsConversion ==
    pc = "done" /\ (\E i \in 1..Len(lost) : IsUnhandledKind(lost[i])) =>
        ret.err # Nil /\ ret.sdl = <<>>

\* C3: when the decoded payload holds errors, the conversion returns the
\* empty string and an error whose message is the fixed prefix followed by
\* every message of the payload, in order, with a comma between two
\* messages; the Printer has written nothing.
C3_GraphQLErrorsShortCircuit ==
    Len(schemaResponse.Errors) # 0 /\ pc # "decoded" =>
        /\ pc = "done"
        /\ ret.sdl = <<>>
        /\ sb = <<>> /\ lost = <<>>
        /\ ret.err # Nil
        /\ Len(ret.err[1].msg) = 2 * Len(schemaResponse.Errors)
        /\ ret.err[1].msg[1] = "encountered the following GraphQL errors: "
        /\ \A i \in 1..Len(schemaResponse.Errors) :
              /\ ret.err[1].msg[2 * i] = schemaResponse.Errors[i].Message
              /\ i > 1 => ret.err[1].msg[2 * i - 1] = ","

C3_Witness ==
    /\ pc = "done"
    /\ schemaResponse.Errors = <<[Message |-> "m2"], [Message |-> "m1"]>>
    /\ Schema.Types = <<ScalarString>>
    /\ Schema.Directives = <<DirectiveCustom>>
    /\ ret = [sdl |-> <<>>,
              err |-> <<NewError(<<"encountered the following GraphQL errors: ",
                                   "m2", ",", "m1">>)>>]

\* the text the Printer writes for one definition when nothing is excluded
DirectiveBlock(d) == printDirectivesBody(<<>>, d, FALSE).sb
TypeBlock(t) == printTypesBody(<<>>, t, FALSE).sb

RECURSIVE Concat(_)
Concat(blocks) == IF blocks = <<>> THEN <<>> ELSE Head(blocks) \o Concat(Tail(blocks))

Blocks(directives, types) ==
    Concat([i \in 1..Len(directives) |-> DirectiveBlock(directives[i])])
    \o Concat([i \in 1..Len(types) |-> TypeBlock(types[i])])

PrintsWithoutError(schema, wb) ==
    /\ ~Stopped(printDirectives(<<>>, schema.Directives, wb))
    /\ ~Stopped(printTypes(<<>>, schema.Types, wb))
    /\ printTypes(<<>>, schema.Types, wb).dropped = <<>>

IsBuiltinDirective(d) == d.Name \in {"deprecated", "include", "skip"}
IsBuiltinScalar(t) ==
    t.Kind = "SCALAR" /\ t.Name \in {"ID", "Int", "String", "Float", "Boolean"}
KeepDirective(d) == ~IsBuiltinDirective(d)
KeepType(t) == ~IsBuiltinScalar(t)

\* C5: for a schema that prints without error, the text returned with
\* withoutBuiltins false is the blocks of all its definitions, and the text
\* returned with withoutBuiltins true is the same blocks without those of the
\* directives named deprecated, include or skip and of the types that are
\* both scalars and named ID, Int, String, Float or Boolean.
C5_BuiltinsRemoved ==
    PrinterRan /\ PrintsWithoutError(Schema, FALSE) /\ PrintsWithoutError(Schema, TRUE) =>
        ret.sdl = IF withoutBuiltins
                  THEN Blocks(SelectSeq(Schema.Directives, KeepDirective),
                              SelectSeq(Schema.Types, KeepType))
                  ELSE Blocks(Schema.Directives, Schema.Types)

C5_Witness ==
    /\ PrinterRan
    /\ withoutBuiltins
    /\ Schema.Directives = <<DirectiveSkip, DirectiveCustom>>
    /\ Schema.Types = <<ScalarString, ObjectInt>>
    /\ ret.sdl = DirectiveBlock(DirectiveCustom) \o TypeBlock(ObjectInt)
    /\ TypeBlock(ScalarString) = <<"scalar ", "String", "\n", "\n">>

\* the first token of the line of every field, in order
FieldStarts(block) ==
    SelectSeq([p \in 1..Len(block) |-> p], LAMBDA p : block[p] = "\t")

FieldsOf(t) == IF t.Kind = "INPUT_OBJECT" THEN t.InputFields ELSE t.Fields

OwnDescriptions(t, block) ==
    /\ Len(FieldStarts(block)) = Len(FieldsOf(t))
    /\ \A k \in 1..Len(FieldsOf(t)) :
          IF FieldsOf(t)[k].Description # ""
          THEN /\ FieldStarts(block)[k] > 4
               /\ SubSeq(block, FieldStarts(block)[k] - 4, FieldStarts(block)[k] - 1)
                    = <<"\"\"\"", FieldsOf(t)[k].Description, "\"\"\"", "\n">>
          ELSE ~(/\ FieldStarts(block)[k] > 2
                 /\ block[FieldStarts(block)[k] - 2] = "\"\"\""
                 /\ block[FieldStarts(block)[k] - 1] = "\n")

\* the schema cut after its i-th type, and the part of the returned text
\* that the i-th type added to it
UpTo(i) == [Schema EXCEPT !.Types = SubSeq(Schema.Types, 1, i)]
OutputBlock(i) ==
    SubSeq(ret.sdl, Len(printSchema(UpTo(i - 1), withoutBuiltins)) + 1,
                    Len(printSchema(UpTo(i), withoutBuiltins)))

\* C6: when the Printer met no error, the returned block of every object,
\* interface and input object has, directly before each field, that field's
\* own description, and nothing when the field has none.
C6_FieldsCarryOwnDescription ==
    PrinterRan /\ lost = <<>> =>
        \A i \in 1..Len(Schema.Types) :
            /\ Schema.Types[i].Kind \in {"OBJECT", "INTERFACE", "INPUT_OBJECT"}
            /\ Schema.Types[i].Name \notin {"__", "__Type", "__Schema"}
            => OwnDescriptions(Schema.Types[i], OutputBlock(i))

EndsWithBlankLine(block) ==
    block = <<>> \/ (Len(block) >= 2 /\ SubSeq(block, Len(block) - 1, Len(block)) = <<"\n", "\n">>)

PrintedDirectives == IF withoutBuiltins THEN SelectSeq(Schema.Directives, KeepDirective)
                     ELSE Schema.Directives
PrintedTypes == IF withoutBuiltins THEN SelectSeq(Schema.Types, KeepType) ELSE Schema.Types

\* C9: a text returned without error is the blocks of the printed
\* directives, in the order of the directive list, followed by the blocks of
\* the printed types, in the order of the type list, every definition as
\* often as it is listed, and every block ends with a blank line.
C9_BlocksInListOrder ==
    pc = "done" /\ ret.err = Nil =>
        /\ ret.sdl = Blocks(PrintedDirectives, PrintedTypes)
        /\ \A i \in 1..Len(PrintedDirectives) : EndsWithBlankLine(DirectiveBlock(PrintedDirectives[i]))
        /\ \A i \in 1..Len(PrintedTypes) : EndsWithBlankLine(TypeBlock(PrintedTypes[i]))

IsMetaName(name) == name \in {"__", "__Type", "__Schema"}
NotMeta(t) == ~IsMetaName(t.Name)
WithoutMeta(schema) == [schema EXCEPT !.Types = SelectSeq(schema.Types, NotMeta)]

\* C10: the types whose name begins with "__" contribute nothing: what the
\* conversion returns, and the errors the Printer met, are those of the
\* schema without these types, whatever their kind and whatever the flag.
C10_MetaTypesContributeNothing ==
    PrinterRan =>
        /\ ret.sdl = printSchema(WithoutMeta(Schema), withoutBuiltins)
        /\ lost = printDirectives(<<>>, Schema.Directives, withoutBuiltins).err
                  \o printTypes(<<>>, WithoutMeta(Schema).Types, withoutBuiltins).dropped
                  \o printTypes(<<>>, WithoutMeta(Schema).Types, withoutBuiltins).err

C10_Witness ==
    /\ PrinterRan
    /\ Schema.Types = <<MetaUnknownKind, ScalarFoo>>
    /\ Schema.Directives = <<>>
    /\ lost = <<>>
    /\ ret.sdl = <<"\"\"\"", "S", "\"\"\"", "\n", "scalar ", "_Foo", "\n", "\n">>

====
